---- MODULE Spec2Model ----
(***************************************************************************)
(* Model of the WallMagic account service (app/routes/auth_routes.py,      *)
(* app/main.py, app/config.py, app/database.py).                           *)
(*                                                                         *)
(* The shared state is the "users" table.  Every handler is an `async def` *)
(* without an await, so one server process runs a request to completion;   *)
(* several server processes (Workers) share the same database, and their   *)
(* SQL statements interleave.  A registration is therefore three steps,    *)
(* one per statement it sends to the database (the e-mail lookup, the      *)
(* username lookup, the INSERT/COMMIT), and a login is one step (a single  *)
(* lookup followed by pure computation).                                   *)
(*                                                                         *)
(* Strings whose content the code inspects (e-mail case, password bytes    *)
(* seen by bcrypt, lengths checked by the schemas) are sequences of        *)
(* one-character strings.  Time is counted in whole seconds, the unit of   *)
(* a JWT "exp" claim.                                                      *)
(*                                                                         *)
(* Spec is registration and login against the shared table; SpecToken adds *)
(* the clock and the verification of issued tokens.  The repository issues *)
(* tokens and never verifies one: verify_token follows section 4.2 of the  *)
(* specification.                                                          *)
(***************************************************************************)
EXTENDS Integers, Sequences, FiniteSets, TLC

VARIABLES
    debug,       \* settings.debug, fixed when the process starts
    users,       \* rows of the "users" table
    pc,          \* per worker: where its register handler stands
    req,         \* per worker: the validated UserRegister being handled
    resp,        \* per worker: its HTTP response (none while it handles a request)
    respAt,      \* per worker: clock reading when that response was produced
    plain,       \* history: user id -> the password the account registered with
    now,         \* datetime.utcnow(), in seconds
    nreq,        \* number of requests received so far
    verified     \* outcome of the last token verification

vars == <<debug, users, pc, req, resp, respAt, plain, now, nreq, verified>>

----------------------------------------------------------------------------
(* Bounds of the model *)

MaxRequests == 3
MaxTokenRequests == 2
MaxEpochs == 1
MaxSkew == 1

Workers == {"w1", "w2"}

----------------------------------------------------------------------------
(* Configuration: app/config.py *)

ACCESS_TOKEN_EXPIRE_MINUTES == 30
SECRET_KEY == "your-super-secret-key-change-in-production"
ALGORITHM == "HS256"

TokenTTL == ACCESS_TOKEN_EXPIRE_MINUTES * 60

\* bcrypt reads at most this many bytes of a password
BcryptMaxBytes == 72

\* Field(min_length=.., max_length=..) of UserRegister
UsernameMinLen == 3
UsernameMaxLen == 100
PasswordMinLen == 6
PasswordMaxLen == 100

----------------------------------------------------------------------------
(* Inputs *)

Str1(c) == <<c>>

LowerChar(c) ==
    CASE c = "A" -> "a"
      [] c = "B" -> "b"
      [] c = "X" -> "x"
      [] OTHER -> c

Lower(s) == [i \in 1..Len(s) |-> LowerChar(s[i])]

\* A password of n bytes: n-1 times "a", then c
LongPassword(n, c) == [i \in 1..n |-> IF i < n THEN "a" ELSE c]

PwSecret == <<"s", "e", "c", "r", "e", "t">>
PwShort == <<"b", "a", "d">>
PwLongB == LongPassword(BcryptMaxBytes + 1, "b")
PwLongC == LongPassword(BcryptMaxBytes + 1, "c")

NameAlice == <<"a", "l", "i", "c", "e">>
NameBob == <<"b", "o", "b">>
NameTooShort == <<"a", "l">>

\* A domain name "<c>.co"
Domain(c) == <<c, ".", "c", "o">>

\* Addresses as typed: a@x.co, A@x.co (the local part in another case),
\* a@X.co (the domain in another case) and a@x, which is no address.
EmailPlain == [local |-> Str1("a"), domain |-> Domain("x")]
EmailUpperLocal == [local |-> Str1("A"), domain |-> Domain("x")]
EmailUpperDomain == [local |-> Str1("a"), domain |-> Domain("X")]
EmailMalformed == [local |-> Str1("a"), domain |-> Str1("x")]

\* The two addresses that the service keeps apart
RawEmails == {EmailPlain, EmailUpperLocal}

\* Register bodies: every combination of the two addresses, two usernames
\* and two passwords; one body with the domain in another case; and two
\* bodies the schema refuses.
RegisterBodies ==
    { [email |-> e, username |-> u, password |-> p] :
        e \in RawEmails, u \in {NameAlice, NameBob}, p \in {PwSecret, PwLongB} }
    \cup { [email |-> EmailUpperDomain, username |-> NameAlice, password |-> PwSecret],
           [email |-> EmailPlain, username |-> NameTooShort, password |-> PwSecret],
           [email |-> EmailPlain, username |-> NameAlice, password |-> PwShort] }

\* Login bodies: the two addresses with four passwords; one body with the
\* domain in another case; and one body the schema refuses.
LoginBodies ==
    { [email |-> e, password |-> p] :
        e \in RawEmails,
        p \in {PwSecret, PwShort, PwLongB, PwLongC} }
    \cup { [email |-> EmailUpperDomain, password |-> PwSecret],
           [email |-> EmailMalformed, password |-> PwSecret] }

\* The clock readings the model samples: around 0 and around each multiple
\* of the token lifetime.
Instants == { k * TokenTTL + j : k \in 0..MaxEpochs, j \in 0..MaxSkew }

----------------------------------------------------------------------------
(* Schemas: pydantic validation done before a handler runs *)

\* EmailStr accepts an address with a local part and a domain that holds a
\* period between two non-empty parts.
EmailValid(raw) ==
    /\ Len(raw.local) > 0
    /\ \E i \in 2..(Len(raw.domain) - 1) : raw.domain[i] = "."

\* EmailStr: the validated value is the normalized address, whose domain is
\* lower-cased and whose local part keeps its case.
EmailStr(raw) == [local |-> raw.local, domain |-> Lower(raw.domain)]

\* The address as the string the client sent
EmailText(raw) == raw.local \o <<"@">> \o raw.domain

\* One entry of the "detail" list of a 422 response: the refused field, the
\* kind of error and the value that was submitted for the field.
ValidationEntry(field, type, input) ==
    [loc |-> <<"body", field>>, type |-> type, input |-> input]

\* The entry of a str field against Field(min_length, max_length)
LengthErrors(field, value, min_length, max_length) ==
    IF Len(value) < min_length
    THEN <<ValidationEntry(field, "string_too_short", value)>>
    ELSE IF Len(value) > max_length
    THEN <<ValidationEntry(field, "string_too_long", value)>>
    ELSE <<>>

EmailErrors(raw) ==
    IF EmailValid(raw) THEN <<>>
    ELSE <<ValidationEntry("email", "value_error", EmailText(raw))>>

\* UserRegister: the errors of a body, in the order of the fields
UserRegisterErrors(body) ==
    EmailErrors(body.email)
    \o LengthErrors("username", body.username, UsernameMinLen, UsernameMaxLen)
    \o LengthErrors("password", body.password, PasswordMinLen, PasswordMaxLen)

UserRegisterValid(body) == UserRegisterErrors(body) = <<>>

\* UserRegister: the validated value
UserRegister(body) ==
    [email |-> EmailStr(body.email),
     username |-> body.username,
     password |-> body.password]

\* UserLogin: the password is any string
UserLoginErrors(body) == EmailErrors(body.email)

UserLoginValid(body) == UserLoginErrors(body) = <<>>

UserLogin(body) ==
    [email |-> EmailStr(body.email), password |-> body.password]

----------------------------------------------------------------------------
(* Password hashing: passlib CryptContext(schemes=["bcrypt"]) *)

Salts == {"salt1", "salt2"}

\* bcrypt digests the first BcryptMaxBytes bytes of the password
BcryptInput(password) ==
    SubSeq(password, 1, IF Len(password) < BcryptMaxBytes
                        THEN Len(password) ELSE BcryptMaxBytes)

\* The hash string "$2b$<cost>$<salt><digest>"; the digest is a one-way
\* image of (salt, input), kept here as the pair it is computed from.
get_password_hash(password, salt) ==
    [scheme |-> "bcrypt", salt |-> salt, digest |-> BcryptInput(password)]

verify_password(plain_password, hashed_password) ==
    get_password_hash(plain_password, hashed_password.salt) = hashed_password

----------------------------------------------------------------------------
(* The users table: class User, and the database's answers *)

\* A row of "users" (full_name and the two timestamps, which no handler
\* reads back into a decision, are left out).
User(id, email, username, hashed_password) ==
    [id |-> id, email |-> email, username |-> username,
     hashed_password |-> hashed_password]

\* .first() of a query: no row, or one of the matching rows
First(rows) == IF rows = {} THEN {} ELSE {CHOOSE u \in rows : TRUE}

\* The mutated lookups: the query finds nothing.
get_user_by_email_none(db, email) == {}

get_user_by_username_none(db, username) == {}

get_user_by_email(db, email) == First({u \in db : u.email = email})

get_user_by_username(db, username) == First({u \in db : u.username = username})

\* id = Column(Integer, primary_key=True): the next row id
NextId(db) ==
    IF db = {} THEN 1
    ELSE 1 + (CHOOSE m \in {u.id : u \in db} : \A u \in db : u.id <= m)

\* The mutated constraint check: the columns are not declared unique.
UniqueViolationNever(db, row) == FALSE

\* email and username are Column(..., unique=True): the INSERT of row is
\* refused when a committed row has the same email or the same username.
UniqueViolation(db, row) ==
    \E u \in db : u.email = row.email \/ u.username = row.username

\* The sqlalchemy IntegrityError raised by db.commit(); its str() shows the
\* statement and the parameters bound to it.
IntegrityError(row) ==
    [text |-> "(IntegrityError) UNIQUE constraint failed [SQL: INSERT INTO users]",
     parameters |-> {[email |-> row.email, username |-> row.username,
                      hashed_password |-> row.hashed_password]}]

----------------------------------------------------------------------------
(* Tokens *)

\* HMAC of the header and the claims under the key: an unforgeable binding
Sign(key, alg, claims) == [key |-> key, alg |-> alg, over |-> claims]

\* The mutated token: "exp" is the time of issuance, the lifetime forgotten.
create_access_token_no_lifetime(data) ==
    LET to_encode == [sub |-> data.sub, user_id |-> data.user_id, exp |-> now]
    IN  [alg |-> ALGORITHM, claims |-> to_encode,
         signature |-> Sign(SECRET_KEY, ALGORITHM, to_encode)]

\* create_access_token(data) with the default lifetime: data plus "exp"
create_access_token(data) ==
    LET expire == now + TokenTTL
        to_encode == [sub |-> data.sub, user_id |-> data.user_id, exp |-> expire]
    IN  [alg |-> ALGORITHM, claims |-> to_encode,
         signature |-> Sign(SECRET_KEY, ALGORITHM, to_encode)]

\* class Token
Token(access_token) ==
    [access_token |-> access_token, token_type |-> "bearer",
     expires_in |-> ACCESS_TOKEN_EXPIRE_MINUTES * 60]

\* Token verification as section 4.2 of the specification describes it:
\* the signature first, then "exp" against the clock.
verify_token(token, t) ==
    IF token.signature # Sign(SECRET_KEY, ALGORITHM, token.claims)
    THEN [outcome |-> "BadSignature", claims |-> {}]
    ELSE IF token.claims.exp < t
    THEN [outcome |-> "Expired", claims |-> {}]
    ELSE [outcome |-> "ok", claims |-> {token.claims}]

\* A token whose signature was altered in transit
Tampered(token) ==
    [token EXCEPT !.signature = Sign("forged", ALGORITHM, token.claims)]

----------------------------------------------------------------------------
(* Responses *)

\* class UserResponse: the view of a row that a response carries
UserResponse(user) ==
    [id |-> user.id, email |-> user.email, username |-> user.username]

\* An HTTP response.  user, token and error hold at most one element;
\* validation is the list of entries of a 422 response.
\* bcrypt_calls counts the bcrypt computations made while producing the
\* response: each costs the configured work factor, so it is the class of
\* the response time.
Response(status_code, detail, message, headers, user, token, error, validation, bcrypt_calls) ==
    [status |-> status_code, detail |-> detail, message |-> message,
     headers |-> headers, user |-> user, token |-> token, error |-> error,
     validation |-> validation, bcrypt_calls |-> bcrypt_calls]

NoResponse == Response(0, "", "", {}, {}, {}, {}, <<>>, 0)

\* The answer of the route to a body its schema refuses: 422, the handler
\* is not entered, and "detail" lists the errors with the submitted values.
RequestValidationError(errors) ==
    Response(422, "", "", {}, {}, {}, {}, errors, 0)

\* raise HTTPException(status_code, detail, headers)
HTTPException(status_code, detail, headers, bcrypt_calls) ==
    Response(status_code, detail, "", headers, {}, {}, {}, <<>>, bcrypt_calls)

\* class AuthResponse
AuthResponse(status_code, message, user, token, bcrypt_calls) ==
    Response(status_code, "", message, {}, {UserResponse(user)}, {token}, {},
             <<>>, bcrypt_calls)

\* main.py, global_exception_handler: any exception a handler lets through.
\* "error" is str(exc) when settings.debug is set.  (The "path" entry of the
\* body, the URL path of the request, is not kept.)
global_exception_handler(exc, bcrypt_calls) ==
    Response(500, "An unexpected error occurred", "", {}, {}, {},
             {IF debug THEN exc
                       ELSE [text |-> "Internal Server Error", parameters |-> {}]},
             <<>>, bcrypt_calls)

----------------------------------------------------------------------------
(* Handlers *)

NoRequest == [email |-> [local |-> <<>>, domain |-> <<>>],
              username |-> <<>>, password |-> <<>>]

NoVerification == [token |-> {}, altered |-> FALSE, issued_at |-> 0, at |-> 0,
                   result |-> [outcome |-> "none", claims |-> {}]]

Init ==
    /\ debug \in BOOLEAN
    /\ users = {}
    /\ pc = [w \in Workers |-> "idle"]
    /\ req = [w \in Workers |-> NoRequest]
    /\ resp = [w \in Workers |-> NoResponse]
    /\ respAt = [w \in Workers |-> 0]
    /\ plain = {}
    /\ now = 0
    /\ nreq = 0
    /\ verified = NoVerification

\* Worker w answers with r and is free for the next request.
Reply(w, r) ==
    /\ resp' = [resp EXCEPT ![w] = r]
    /\ respAt' = [respAt EXCEPT ![w] = now]
    /\ pc' = [pc EXCEPT ![w] = "idle"]
    /\ req' = [req EXCEPT ![w] = NoRequest]

\* register, lines 143-148: the handler is entered with the validated
\* user_data; the e-mail lookup.
RegisterEmailLookup(w, user_data) ==
    /\ pc[w] = "idle"
    /\ nreq < MaxRequests
    /\ nreq' = nreq + 1
    /\ IF get_user_by_email(users, user_data.email) # {}
       THEN Reply(w, HTTPException(409, "Email already registered", {}, 0))
       ELSE /\ pc' = [pc EXCEPT ![w] = "check_username"]
            /\ req' = [req EXCEPT ![w] = user_data]
            /\ resp' = [resp EXCEPT ![w] = NoResponse]
            /\ respAt' = [respAt EXCEPT ![w] = 0]
    /\ UNCHANGED <<debug, users, plain, now, verified>>

\* A request whose body the schema refuses: answered 422 at once.
Refuse(w, errors) ==
    /\ pc[w] = "idle"
    /\ nreq < MaxRequests
    /\ nreq' = nreq + 1
    /\ Reply(w, RequestValidationError(errors))
    /\ UNCHANGED <<debug, users, plain, now, verified>>

\* POST /api/v1/register: a body the UserRegister schema accepts reaches the
\* handler; a body it refuses is answered 422.
RegisterCheckEmail(w, body) ==
    IF UserRegisterValid(body)
    THEN RegisterEmailLookup(w, UserRegister(body))
    ELSE Refuse(w, UserRegisterErrors(body))

\* register, lines 150-155: the username lookup.
RegisterCheckUsername(w) ==
    /\ pc[w] = "check_username"
    /\ IF get_user_by_username(users, req[w].username) # {}
       THEN Reply(w, HTTPException(409, "Username already taken", {}, 0))
       ELSE /\ pc' = [pc EXCEPT ![w] = "commit"]
            /\ UNCHANGED <<req, resp, respAt>>
    /\ UNCHANGED <<debug, users, plain, now, nreq, verified>>

\* register, lines 157-180: hash, INSERT, COMMIT, refresh, token, response.
\* An IntegrityError raised by the commit is not caught by the handler and
\* reaches global_exception_handler.
RegisterCommit(w) ==
    /\ pc[w] = "commit"
    /\ \E salt \in Salts :
         LET hashed_password == get_password_hash(req[w].password, salt)
             db_user == User(NextId(users), req[w].email, req[w].username,
                             hashed_password)
         IN  IF UniqueViolation(users, db_user)
             THEN /\ Reply(w, global_exception_handler(IntegrityError(db_user), 1))
                  /\ UNCHANGED <<users, plain>>
             ELSE /\ users' = users \cup {db_user}
                  /\ plain' = plain \cup {[id |-> db_user.id,
                                           password |-> req[w].password]}
                  /\ Reply(w, AuthResponse(201, "User registered successfully",
                         db_user,
                         Token(create_access_token(
                             [sub |-> db_user.email, user_id |-> db_user.id])),
                         1))
    /\ UNCHANGED <<debug, now, nreq, verified>>

\* login, lines 197-217, as a function of the table and the credentials
login(db, credentials) ==
    LET found == get_user_by_email(db, credentials.email)
    IN  IF found = {}
        THEN HTTPException(401, "Invalid email or password",
                           {"WWW-Authenticate: Bearer"}, 0)
        ELSE LET user == CHOOSE u \in found : TRUE
             IN  IF ~verify_password(credentials.password, user.hashed_password)
                 THEN HTTPException(401, "Invalid email or password",
                                    {"WWW-Authenticate: Bearer"}, 1)
                 ELSE AuthResponse(200, "Login successful", user,
                        Token(create_access_token(
                            [sub |-> user.email, user_id |-> user.id])),
                        1)

\* The login handler entered with validated credentials
LoginHandler(w, credentials) ==
    /\ pc[w] = "idle"
    /\ nreq < MaxRequests
    /\ nreq' = nreq + 1
    /\ Reply(w, login(users, credentials))
    /\ UNCHANGED <<debug, users, plain, now, verified>>

\* POST /api/v1/login: a body the UserLogin schema accepts reaches the
\* handler; a body it refuses is answered 422.
Login(w, body) ==
    IF UserLoginValid(body)
    THEN LoginHandler(w, UserLogin(body))
    ELSE Refuse(w, UserLoginErrors(body))

\* The clock moves on to a later sampled instant.
Tick ==
    /\ \E t \in Instants : t > now /\ now' = t
    /\ UNCHANGED <<debug, users, pc, req, resp, respAt, plain, nreq, verified>>

\* A holder of the token in w's last response has it verified, as received
\* or with its signature altered.
VerifyToken(w, altered) ==
    /\ resp[w].token # {}
    /\ LET issued == (CHOOSE t \in resp[w].token : TRUE).access_token
           presented == IF altered THEN Tampered(issued) ELSE issued
       IN  verified' = [token |-> {presented}, altered |-> altered,
                        issued_at |-> respAt[w], at |-> now,
                        result |-> verify_token(presented, now)]
    /\ UNCHANGED <<debug, users, pc, req, resp, respAt, plain, now, nreq>>

Next ==
    \/ \E w \in Workers, body \in RegisterBodies : RegisterCheckEmail(w, body)
    \/ \E w \in Workers : RegisterCheckUsername(w)
    \/ \E w \in Workers : RegisterCommit(w)
    \/ \E w \in Workers, body \in LoginBodies : Login(w, body)

\* Registration and login against the shared table, the clock standing still
Spec == Init /\ [][Next]_vars

\* The requests of the token specification: one account, a right and a
\* wrong password
TokenRegisterBodies ==
    { [email |-> EmailPlain, username |-> NameAlice, password |-> PwSecret] }

TokenLoginBodies ==
    { [email |-> EmailPlain, password |-> p] :
        p \in {PwSecret, PwShort} }

NextToken ==
    \/ \E w \in Workers, body \in TokenRegisterBodies :
          nreq < MaxTokenRequests /\ RegisterCheckEmail(w, body)
    \/ \E w \in Workers : RegisterCheckUsername(w)
    \/ \E w \in Workers : RegisterCommit(w)
    \/ \E w \in Workers, body \in TokenLoginBodies :
          nreq < MaxTokenRequests /\ Login(w, body)
    \/ Tick
    \/ \E w \in Workers, altered \in BOOLEAN : VerifyToken(w, altered)

\* Tokens issued while the clock runs, and their verification
SpecToken == Init /\ [][NextToken]_vars

----------------------------------------------------------------------------
(* Properties *)

\* The validated forms of the accepted register bodies
RegisterData == { UserRegister(b) : b \in {x \in RegisterBodies : UserRegisterValid(x)} }

ConflictDetails == {"Email already registered", "Username already taken"}

\* The password an account was registered with
PlainOf(id) == (CHOOSE c \in plain : c.id = id).password

\* Lower-casing of a whole address
CaseFold(email) == [local |-> Lower(email.local), domain |-> Lower(email.domain)]

\* The password hashes a response shows
HashesIn(r) ==
    UNION { {p.hashed_password : p \in e.parameters} : e \in r.error }
    \cup { u.hashed_password : u \in {v \in r.user : "hashed_password" \in DOMAIN v} }

\* The passwords a response shows
PasswordsIn(r) ==
    { r.validation[i].input :
        i \in {j \in 1..Len(r.validation) : r.validation[j].loc = <<"body", "password">>} }
    \cup { u.password : u \in {v \in r.user : "password" \in DOMAIN v} }

\* C1: in every reachable state of the table, under any interleaving of
\* register and login requests, no two rows share an email and no two rows
\* share a username.
C1_UniqueEmailAndUsername ==
    \A u1, u2 \in users :
        u1 # u2 => u1.email # u2.email /\ u1.username # u2.username

\* Two accounts exist and a racing INSERT has been refused by the table.
C1_Witness ==
    /\ Cardinality(users) = 2
    /\ \E w \in Workers : resp[w].status = 500

\* C2: a register request that passed both lookups and whose INSERT the
\* uniqueness constraint then refuses is answered 409 with a duplicate
\* detail, as a failed lookup would be.
C2_RaceLoserGetsConflict ==
    [][\A w \in Workers :
        ( /\ RegisterCommit(w)
          /\ \E u \in users : \/ u.email = req[w].email
                              \/ u.username = req[w].username )
        => /\ resp'[w].status = 409
           /\ resp'[w].detail \in ConflictDetails]_vars

\* C3: a register request that the schema accepts and whose (validated)
\* email is the email of a row of the table when the request looks it up is
\* answered 409 "Email already registered", whatever its username; the
\* request ends there and the table is left as it was.
C3_DuplicateEmailRejected ==
    [][\A w \in Workers : \A user_data \in RegisterData :
        ( /\ \E u \in users : u.email = user_data.email
          /\ RegisterEmailLookup(w, user_data) )
        => /\ resp'[w] = HTTPException(409, "Email already registered", {}, 0)
           /\ pc'[w] = "idle"
           /\ users' = users]_vars

\* A request has been refused for its email while an account holds it.
C3_Witness ==
    /\ users # {}
    /\ \E w \in Workers :
         /\ resp[w].status = 409
         /\ resp[w].detail = "Email already registered"

\* C4: an accepted register request whose email matched no row at its email
\* lookup and
\* whose username is the username of a row when the request looks it up is
\* answered 409 "Username already taken"; the request ends there and no row
\* is written.
C4_DuplicateUsernameRejected ==
    [][\A w \in Workers :
        ( /\ RegisterCheckUsername(w)
          /\ \E u \in users : u.username = req[w].username )
        => /\ resp'[w] = HTTPException(409, "Username already taken", {}, 0)
           /\ pc'[w] = "idle"
           /\ users' = users]_vars

\* A request has been refused for its username while an account holds it.
C4_Witness ==
    /\ users # {}
    /\ \E w \in Workers :
         /\ resp[w].status = 409
         /\ resp[w].detail = "Username already taken"

\* C5: any two failed logins, the one for an email no account has and the
\* one for a wrong password, get the same response: same status, detail and
\* headers, and the same class of response time.
C5_LoginFailuresIndistinguishable ==
    \A w1, w2 \in Workers :
        (resp[w1].status = 401 /\ resp[w2].status = 401) => resp[w1] = resp[w2]

\* C6: once an account is registered with email e and password p, whatever
\* happened since, a login with e succeeds with a token for that account
\* when its password is p and fails with 401 when its password is not p.
C6_LoginAfterRegister ==
    [][\A w \in Workers : \A body \in LoginBodies :
        Login(w, body) =>
          \A u \in users :
            u.email = EmailStr(body.email) =>
              IF body.password = PlainOf(u.id)
              THEN /\ resp'[w].status = 200
                   /\ \A t \in resp'[w].token :
                        /\ t.access_token.claims.sub = u.email
                        /\ t.access_token.claims.user_id = u.id
              ELSE /\ resp'[w].status = 401
                   /\ resp'[w].detail = "Invalid email or password"]_vars

\* C7: no response of register or login, success or error, shows a password
\* hash or a password.
C7_NoSecretInResponse ==
    \A w \in Workers :
        /\ HashesIn(resp[w]) = {}
        /\ PasswordsIn(resp[w]) = {}

\* C8: the table never holds two rows whose emails are equal once their
\* letter case is folded.
C8_NoCaseVariantEmails ==
    \A u1, u2 \in users :
        u1 # u2 => CaseFold(u1.email) # CaseFold(u2.email)

\* C9: every issued token carries exactly the claims sub, user_id, iat and
\* exp: sub and user_id those of one row of the table, iat the time of
\* issuance and exp that time plus the configured lifetime.
C9_TokenClaimSet ==
    \A w \in Workers : \A t \in resp[w].token :
        LET claims == t.access_token.claims
        IN  /\ DOMAIN claims = {"sub", "user_id", "iat", "exp"}
            /\ \E u \in users : u.email = claims.sub /\ u.id = claims.user_id
            /\ claims.iat = respAt[w]
            /\ claims.exp = respAt[w] + ACCESS_TOKEN_EXPIRE_MINUTES * 60

\* C10: an issued token presented unaltered is refused as Expired (never as
\* BadSignature) at any time later than its issuance plus the lifetime, and
\* at any time earlier than that it verifies and yields the issued claims.
C10_ExpiryAfterLifetime ==
    (verified.token # {} /\ ~verified.altered) =>
        /\ verified.at > verified.issued_at + TokenTTL
             => verified.result.outcome = "Expired"
        /\ verified.at < verified.issued_at + TokenTTL
             => /\ verified.result.outcome = "ok"
                /\ \A t \in verified.token : verified.result.claims = {t.claims}
                /\ \A c \in verified.result.claims :
                     \E u \in users : u.email = c.sub /\ u.id = c.user_id

\* An unaltered token has been refused as expired after its lifetime.
C10_Witness ==
    /\ verified.token # {}
    /\ ~verified.altered
    /\ verified.at > verified.issued_at + TokenTTL
    /\ verified.result.outcome = "Expired"

====
